---------------------------- MODULE Spec2Model ----------------------------
(***************************************************************************)
(* Facade analytics engine (core/analytics.py): the five stages, the       *)
(* reference profiles and build_dataset, as a machine whose steps are      *)
(* calls of the public functions (Spec); and the console (app.py): the     *)
(* seed file, the session state and the runs of main() (AppSpec).          *)
(*                                                                         *)
(* Numbers.  A Python float is an integer count of millionths (One is      *)
(* 1.0), so 3.45 is 3450000.  Products, quotients and roots are rounded to *)
(* the nearest millionth; round(x, n) is round-half-to-even to a multiple  *)
(* of 10^(6-n), as Python's round of a float.  DesignProfile fields are    *)
(* kept in thousandths (module_width 1.25 is 1250) and converted with      *)
(* ToFloat where the code reads them.                                      *)
(***************************************************************************)
EXTENDS Integers, Sequences, FiniteSets, TLC

VARIABLES
    fn,         \* the function called last ("none" before any call)
    profile,    \* the DesignProfile passed to it (NoProfile when none was)
    record,     \* the geometry or corrections record passed to it
    profiles,   \* the profile list passed to build_dataset
    raised,     \* the exception the call raised ("none" when it returned)
    ret,        \* the value the call returned
    seed,       \* what is at DATA_PATH: nothing, a directory or a file's text
    session,    \* st.session_state
    calls,      \* the functions the call went through, in order
    heap        \* the objects as the call left them: its arguments and the
                \* module's tables RULE_SET and MATERIAL_DENSITY

vars == <<fn, profile, record, profiles, raised, ret, seed, session, calls, heap>>

-----------------------------------------------------------------------------
(* Fixed-point arithmetic standing for float arithmetic *)

One == 1000000

Milli == 1000

ToFloat(m) == m * Milli

Abs(x) == IF x < 0 THEN -x ELSE x

Sign(x) == IF x < 0 THEN -1 ELSE 1

\* Python's max(a, b): b only when b > a
Max(a, b) == IF b > a THEN b ELSE a

\* Python's min(a, b): b only when b < a
Min(a, b) == IF b < a THEN b ELSE a

\* a / b rounded to the nearest integer, ties to even (b > 0)
RoundDiv(a, b) ==
    LET q == a \div b
        r == a % b
    IN  IF 2 * r < b THEN q
        ELSE IF 2 * r > b THEN q + 1
        ELSE IF q % 2 = 0 THEN q ELSE q + 1

Pow10(n) == CASE n = 0 -> 1 [] n = 1 -> 10 [] n = 2 -> 100 [] n = 3 -> 1000
              [] n = 4 -> 10000 [] n = 5 -> 100000 [] OTHER -> 1000000

\* round(x, n) with ties going away from zero instead of to the even digit
RoundHalfUp(x, n) ==
    Sign(x) * ((Abs(x) + (Pow10(6 - n) \div 2)) \div Pow10(6 - n)) * Pow10(6 - n)

\* round(x, n) for n in 0..6
Round(x, n) == RoundDiv(x, Pow10(6 - n)) * Pow10(6 - n)

\* |a| * |b| in millionths, by thousands so that no partial product overflows
MulAbs(a, b) ==
    LET a1 == a \div 1000
        a0 == a % 1000
        b1 == b \div 1000
        b0 == b % 1000
        m  == a1 * b0 + a0 * b1
    IN  a1 * b1 + (m \div 1000) + RoundDiv((m % 1000) * 1000 + a0 * b0, One)

\* a * b
Mul(a, b) == Sign(a) * Sign(b) * MulAbs(Abs(a), Abs(b))

\* Long division keeps <<q, r>> for the value q + r / b, 0 <= r < b, and never
\* forms a product with the remainder, so any divisor is in range.
Twice(x, b) ==
    IF x[2] >= b - x[2] THEN <<2 * x[1] + 1, x[2] - (b - x[2])>>
    ELSE <<2 * x[1], 2 * x[2]>>

Plus(x, y, b) ==
    IF x[2] >= b - y[2] THEN <<x[1] + y[1] + 1, x[2] - (b - y[2])>>
    ELSE <<x[1] + y[1], x[2] + y[2]>>

\* ten times x: (4x + x) * 2
TimesTen(x, b) == Twice(Plus(Twice(Twice(x, b), b), x, b), b)

\* n more decimal digits of the quotient, then rounded, ties to even
RECURSIVE DivDigits(_, _, _)
DivDigits(x, b, n) ==
    IF n = 0
    THEN IF x[2] > b - x[2] \/ (x[2] = b - x[2] /\ x[1] % 2 = 1) THEN x[1] + 1 ELSE x[1]
    ELSE DivDigits(TimesTen(x, b), b, n - 1)

\* a / b for b # 0
Div(a, b) ==
    Sign(a) * Sign(b) * DivDigits(<<Abs(a) \div Abs(b), Abs(a) % Abs(b)>>, Abs(b), 6)

\* the largest k in lo..hi with k * k <= n
RECURSIVE ISqrt(_, _, _)
ISqrt(n, lo, hi) ==
    IF lo >= hi THEN lo
    ELSE LET mid == (lo + hi + 1) \div 2
         IN  IF mid * mid <= n THEN ISqrt(n, mid, hi) ELSE ISqrt(n, lo, mid - 1)

\* one Newton step towards sqrt(x) from the estimate y > 0
NewtonStep(x, y) == (y + Div(x, y)) \div 2

\* np.sqrt(x) for x >= 0
Sqrt(x) ==
    LET y0 == ISqrt(x, 0, 46340) * 1000
    IN  IF y0 = 0 THEN 0
        ELSE NewtonStep(x, NewtonStep(x, NewtonStep(x, y0)))

Pi == 3141593

\* np.deg2rad(x) = x * pi / 180
Deg2Rad(x) == RoundDiv(Mul(x, Pi), 180)

\* np.sin(x), |x| <= pi/2: x - x^3/3! + x^5/5! - x^7/7! + x^9/9! - x^11/11!
Sin(x) ==
    LET x2  == Mul(x, x)
        x3  == Mul(x2, x)
        x5  == Mul(x3, x2)
        x7  == Mul(x5, x2)
        x9  == Mul(x7, x2)
        x11 == Mul(x9, x2)
    IN  x - RoundDiv(x3, 6) + RoundDiv(x5, 120) - RoundDiv(x7, 5040)
          + RoundDiv(x9, 362880) - RoundDiv(x11, 39916800)

\* IEEE values that numpy's array division can produce
Fin(v) == [kind |-> "finite", v |-> v]

NaN == [kind |-> "nan", v |-> 0]

PosInf == [kind |-> "inf", v |-> 0]

NegInf == [kind |-> "-inf", v |-> 0]

\* numpy x / s on array elements: division by zero gives inf or nan, no error
NpDivide(x, s) ==
    IF s # 0 THEN Fin(Div(x, s))
    ELSE IF x = 0 THEN NaN
    ELSE IF x > 0 THEN PosInf ELSE NegInf

\* numpy round / Python round on a value that may be nan or inf
NpRound(f, n) == IF f.kind = "finite" THEN Fin(Round(f.v, n)) ELSE f

\* x / n for a whole number n > 0 (h / 12, x / 400, idx / 6, mean over 7)
DivInt(x, n) == RoundDiv(x, n)

-----------------------------------------------------------------------------
(* Outcomes of a call *)

None == [none |-> TRUE]

Ok(v) == [exc |-> "none", val |-> v]

Raise(e) == [exc |-> e, val |-> None]

-----------------------------------------------------------------------------
(* Static tables and reference data *)

\* the material table; .get(material, 30.0) is in generate_unit_geometry
MATERIAL_DENSITY ==
    [aluminum |-> 27 * One, glass |-> 25 * One, steel |-> 78500000]

RULE_SET ==
    [module_width     |-> [target |-> 1200000,  min |-> 800000,   max |-> 1800000,  weight |-> 1000000],
     module_height    |-> [target |-> 3200000,  min |-> 2400000,  max |-> 4200000,  weight |-> 1200000],
     module_depth     |-> [target |-> 260000,   min |-> 180000,   max |-> 350000,   weight |-> 900000],
     curvature_radius |-> [target |-> 36000000, min |-> 8000000,  max |-> 60000000, weight |-> 1100000],
     tilt_angle       |-> [target |-> 4500000,  min |-> -3000000, max |-> 9000000,  weight |-> 800000],
     mullion_spacing  |-> [target |-> 1500000,  min |-> 1000000,  max |-> 2200000,  weight |-> 700000],
     panel_thickness  |-> [target |-> 22000,    min |-> 16000,    max |-> 32000,    weight |-> 900000]]

\* list(RULE_SET.keys()): insertion order
required_keys ==
    <<"module_width", "module_height", "module_depth", "curvature_radius",
      "tilt_angle", "mullion_spacing", "panel_thickness">>

\* A DesignProfile.  Numeric fields are in thousandths; unset is the set of
\* fields that hold None instead of a number.
DesignProfile(id, name, w, h, d, r, tilt, ms, pt, ws, tg, material) ==
    [id |-> id, name |-> name, module_width |-> w, module_height |-> h,
     module_depth |-> d, curvature_radius |-> r, tilt_angle |-> tilt,
     mullion_spacing |-> ms, panel_thickness |-> pt, wind_speed |-> ws,
     thermal_gradient |-> tg, material |-> material, unset |-> {}]

build_profiles ==
    << DesignProfile("DX-01", "Hyperbolic East Atrium",
                     1250, 3450, 240, 28000, 3500, 1420, 21, 34000, 16000, "aluminum"),
       DesignProfile("DX-02", "North Tower Ribbon",
                     1100, 3000, 220, 45000, 2000, 1500, 19, 38000, 12000, "glass"),
       DesignProfile("DX-03", "Skywalk Link Gallery",
                     1350, 3800, 270, 24000, 5200, 1320, 24, 42000, 18000, "steel") >>

\* the objects a call can reach: what it was given and the module's tables
Heap(p, r, arg, rule_set, material_density) ==
    [profile |-> p, record |-> r, profiles |-> arg,
     RULE_SET |-> rule_set, MATERIAL_DENSITY |-> material_density]

\* getattr(profile, key) as a float
Attr(p, key) == ToFloat(p[key])

\* arithmetic on a field that holds None raises TypeError
IsUnset(p, keys) == p.unset \cap keys # {}

-----------------------------------------------------------------------------
(* Stage 1: analyze_parameter_integrity *)

\* (rule["max"] - rule["min"]) or rule["target"] or 1.0
Spread(rule) ==
    IF rule.max - rule.min # 0 THEN rule.max - rule.min
    ELSE IF rule.target # 0 THEN rule.target ELSE One

\* the gap taken as it is, without the cap at 1.8
NormalizedGapUncapped(p, key) ==
    LET rule == heap.RULE_SET[key]
    IN  Div(Abs(Attr(p, key) - rule.target), DivInt(Spread(rule), 2))

\* min(gap, 1.8) for one ruled field
NormalizedGap(p, key) ==
    LET rule == heap.RULE_SET[key]
        gap  == Div(Abs(Attr(p, key) - rule.target), DivInt(Spread(rule), 2))
    IN  Min(gap, 1800000)

\* round(100 - normalized_gap * 55 * rule["weight"], 2)
Indicator(p, key) ==
    Round(100 * One - Mul(Mul(NormalizedGap(p, key), 55 * One), heap.RULE_SET[key].weight), 2)

\* penalty after the first n ruled fields
RECURSIVE Penalty(_, _)
Penalty(p, n) ==
    IF n = 0 THEN 0
    ELSE Penalty(p, n - 1)
         + Mul(NormalizedGap(p, required_keys[n]), heap.RULE_SET[required_keys[n]].weight)

\* the loop passing over a field that holds None instead of computing its gap
analyze_parameter_integrity_skipping(p) ==
    LET missing      == SelectSeq(required_keys, LAMBDA key : key \in p.unset)
        completeness ==
            Round(Mul(One - Div(Len(missing) * One, Len(required_keys) * One), 100 * One), 2)
    IN  Ok([completenessScore    |-> completeness,
            ruleMatchScore       |-> 0,
            normalizedIndicators |->
                [key \in {required_keys[i] : i \in 1..Len(required_keys)} \ p.unset |->
                    Indicator(p, key)],
            missingParameters    |-> missing,
            notes                |-> "Review highlighted inputs to strengthen rule alignment"])

analyze_parameter_integrity(p) ==
    LET missing      == SelectSeq(required_keys, LAMBDA key : key \in p.unset)
        completeness ==
            Round(Mul(One - Div(Len(missing) * One, Len(required_keys) * One), 100 * One), 2)
        rule_match   ==
            Round(Max(0, 100 * One - Mul(Penalty(p, Len(required_keys)), 18 * One)), 2)
    IN  IF Len(missing) > 0
        THEN Raise("TypeError")    \* abs(None - target) in the loop
        ELSE Ok([completenessScore    |-> completeness,
                 ruleMatchScore       |-> rule_match,
                 normalizedIndicators |->
                     [key \in {required_keys[i] : i \in 1..Len(required_keys)} |->
                         Indicator(p, key)],
                 missingParameters    |-> missing,
                 notes                |->
                     IF completeness > 90 * One /\ rule_match > 72 * One
                     THEN "Parameter coverage satisfactory; proceed to geometry synthesis"
                     ELSE "Review highlighted inputs to strengthen rule alignment"])

-----------------------------------------------------------------------------
(* Stage 2: generate_unit_geometry *)

\* the table read with a default of 0.0
DensityZeroDefault(material) ==
    IF material \in DOMAIN heap.MATERIAL_DENSITY
    THEN heap.MATERIAL_DENSITY[material] ELSE 0

\* MATERIAL_DENSITY.get(profile.material, 30.0)
Density(material) ==
    IF material \in DOMAIN heap.MATERIAL_DENSITY
    THEN heap.MATERIAL_DENSITY[material] ELSE 30 * One

\* round(envelope_volume * density * 0.85, 2)
FrameWeight(envelope_volume, material) ==
    Round(Mul(Mul(envelope_volume, Density(material)), 850000), 2)

\* 1 / max(profile.curvature_radius, 1)
CurvatureFactor(p) == Div(One, Max(Attr(p, "curvature_radius"), One))

\* the four raw path weights, before normalisation
PathWeightsRaw(p) ==
    LET area            == Mul(Attr(p, "module_width"), Attr(p, "module_height"))
        envelope_volume == Mul(area, Attr(p, "module_depth"))
        tilt_factor     == Deg2Rad(Attr(p, "tilt_angle"))
    IN  << area,
           Mul(envelope_volume, One + Mul(CurvatureFactor(p), 12 * One)),
           Mul(FrameWeight(envelope_volume, p.material), 500000 + Abs(tilt_factor)),
           Mul(Attr(p, "panel_thickness"), 10 * One) >>

\* the raw weights rounded without the division by their sum
PathWeightsUnnormalised(raw) == [i \in 1..4 |-> NpRound(Fin(raw[i]), 3)]

\* (path_weights_raw / path_weights_raw.sum()).round(3).tolist()
PathWeights(raw) ==
    LET total == raw[1] + raw[2] + raw[3] + raw[4]
    IN  [i \in 1..4 |-> NpRound(NpDivide(raw[i], total), 3)]

GeometryFields ==
    {"module_width", "module_height", "module_depth", "curvature_radius",
     "tilt_angle", "mullion_spacing", "panel_thickness"}

\* a division that yields 0.0 for a zero divisor instead of raising
TrueDivQuiet(a, b) == IF b = 0 THEN Ok(0) ELSE Ok(Div(a, b))

\* Python's a / b on floats: a zero divisor raises
TrueDiv(a, b) == IF b = 0 THEN Raise("ZeroDivisionError") ELSE Ok(Div(a, b))

generate_unit_geometry(p) ==
    LET w               == Attr(p, "module_width")
        h               == Attr(p, "module_height")
        area            == Mul(w, h)
        envelope_volume == Mul(area, Attr(p, "module_depth"))
        tilt_factor     == Deg2Rad(Attr(p, "tilt_angle"))
        coupling        == TrueDiv(Attr(p, "mullion_spacing"), w)
        ratio           == TrueDiv(Attr(p, "panel_thickness"), Attr(p, "module_depth"))
    IN  IF IsUnset(p, GeometryFields) THEN Raise("TypeError")
        ELSE IF coupling.exc # "none" THEN Raise(coupling.exc)
        ELSE IF ratio.exc # "none" THEN Raise(ratio.exc)
        ELSE Ok([projectedArea   |-> Round(area, 3),
                 envelopeVolume  |-> Round(envelope_volume, 3),
                 frameWeight     |-> FrameWeight(envelope_volume, p.material),
                 controlPoints   |->
                     << <<0, 0>>,
                        <<Mul(w, 400000), Mul(h, 180000)>>,
                        <<Mul(w, 650000), Mul(h, 550000)>>,
                        <<w, h>> >>,
                 pathWeights     |-> PathWeights(PathWeightsRaw(p)),
                 dynamicCoefficients |->
                     [curvatureInfluence |-> Round(Mul(CurvatureFactor(p), 120 * One), 2),
                      tiltResponse       |-> Round(Mul(Sin(tilt_factor), 45 * One), 2),
                      mullionCoupling    |-> Round(coupling.val, 3),
                      thicknessRatio     |-> Round(ratio.val, 3)]])

-----------------------------------------------------------------------------
(* Stage 3: run_structural_verification *)

\* 0.613 * wind_speed**2 * exposure_factor / 1000; the division by 1000 is
\* taken first (wind_speed / 1000 is the field's own thousandths)
WindPressure(p) ==
    LET exposure_factor == 500000 + DivInt(Attr(p, "module_height"), 12)
    IN  Mul(Mul(613000, Mul(Attr(p, "wind_speed"), p.wind_speed)), exposure_factor)

\* np.linspace(0, module_height, 7, endpoint=False)[idx]
NodeOpenEnd(p, idx) == DivInt(idx * Attr(p, "module_height"), 7)

\* np.linspace(0, module_height, 7)[idx], idx in 0..6
Node(p, idx) == DivInt(idx * Attr(p, "module_height"), 6)

\* round(float(elevation), 2)
Elevation(node) == Round(node, 2)

\* the record appended for node idx (0-based)
StressRecord(p, geometry, baseline_stress, idx) ==
    LET gradient_factor == One + Mul(DivInt(idx * One, 6), 320000)
        generated       ==
            Mul(Mul(baseline_stress, gradient_factor),
                One + DivInt(geometry.dynamicCoefficients.curvatureInfluence, 400))
        optimized       == Mul(generated, 920000 - idx * 15000)
    IN  [node      |-> idx + 1,
         elevation |-> Elevation(Node(p, idx)),
         baseline  |-> Round(Mul(baseline_stress, gradient_factor), 3),
         generated |-> Round(generated, 3),
         optimized |-> Round(optimized, 3)]

\* min(100, x): the lower clamp left out
Clamp100UpperOnly(x) == Min(100 * One, x)

\* max(0, min(100, x)), as both scores are returned
Clamp100(x) == Max(0, Min(100 * One, x))

RECURSIVE SumAbsDiff(_, _)
SumAbsDiff(stress_records, n) ==
    IF n = 0 THEN 0
    ELSE SumAbsDiff(stress_records, n - 1)
         + Abs(stress_records[n].generated - stress_records[n].optimized)

StructuralFields == {"module_height", "wind_speed"}

run_structural_verification(p, geometry) ==
    LET wind_pressure   == WindPressure(p)
        dead_load       == Mul(geometry.frameWeight, 9800)
        baseline_stress ==
            Sqrt(Mul(wind_pressure, wind_pressure) + Mul(dead_load, dead_load))
        stress_records  ==
            [i \in 1..7 |-> StressRecord(p, geometry, baseline_stress, i - 1)]
        stability_index ==
            Round(100 * One - Mul(DivInt(SumAbsDiff(stress_records, 7), 7), 38 * One), 2)
    IN  IF IsUnset(p, StructuralFields) THEN Raise("TypeError")
        ELSE Ok([windPressure       |-> Round(wind_pressure, 3),
                 deadLoad           |-> Round(dead_load, 3),
                 stabilityIndex     |-> Clamp100(stability_index),
                 stressDistribution |-> stress_records])

-----------------------------------------------------------------------------
(* Stage 4: compute_error_correction *)

\* 0.72 - idx * 0.24: the step doubled, so the factor reaches 0 and -0.24
ReductionFactorSteep(idx) == 720000 - idx * 240000

\* 0.72 + idx * 0.12: the sign of the step slipped
ReductionFactorGrowing(idx) == 720000 + idx * 120000

\* 0.72 - idx * 0.12
ReductionFactor(idx) == 720000 - idx * 120000

\* curvatureInfluence * 0.18 + thermal_gradient * 0.014
Drift(p, geometry) ==
    Mul(geometry.dynamicCoefficients.curvatureInfluence, 180000)
    + Mul(Attr(p, "thermal_gradient"), 14000)

\* the record appended for iteration idx (0-based)
Iteration(p, geometry, idx) ==
    LET reduction_factor == ReductionFactor(idx)
        path_weights     == geometry.pathWeights
    IN  [iteration      |-> idx + 1,
         deviationMm    |-> Round(Mul(Drift(p, geometry), reduction_factor), 3),
         shapeOffsetDeg |->
             Round(Mul(geometry.dynamicCoefficients.tiltResponse, reduction_factor), 3),
         pathReweight   |-> NpRound(path_weights[(idx % Len(path_weights)) + 1], 3)]

compute_error_correction(p, geometry) ==
    LET iterations  == [i \in 1..5 |-> Iteration(p, geometry, i - 1)]
        residual    == Max(0, Mul(iterations[5].deviationMm, 450000))
        suitability == Round(100 * One - Mul(residual, 12 * One), 2)
    IN  IF IsUnset(p, {"thermal_gradient"}) THEN Raise("TypeError")
        ELSE Ok([iterations          |-> iterations,
                 residualDeviation   |-> Round(residual, 3),
                 assemblySuitability |-> Clamp100(suitability)])

-----------------------------------------------------------------------------
(* Stage 5: build_data_association *)

timeline == <<"Concept", "Design Freeze", "Mockup", "Fabrication", "Installation">>

\* min(0.98, x): the lower clamp left out
ClampCorrelationUpperOnly(x) == Min(980000, x)

\* max(0.4, min(0.98, x))
ClampCorrelation(x) == Max(400000, Min(980000, x))

\* the correlation of stage idx (0-based)
Correlation(corrections, idx) ==
    LET base        == 680000 + DivInt(corrections.assemblySuitability, 250)
        attenuation == One - idx * 60000
    IN  Round(ClampCorrelation(Mul(base, attenuation) + 50000 * idx), 3)

build_data_association(p, corrections) ==
    LET w == Attr(p, "module_width")
    IN  IF IsUnset(p, {"module_width"}) THEN Raise("TypeError")
        ELSE Ok([correlations |->
                     [i \in 1..Len(timeline) |->
                         [stage       |-> timeline[i],
                          correlation |-> Correlation(corrections, i - 1)]],
                 linkageTable |->
                     [i \in 1..Len(timeline) |->
                         [stage       |-> timeline[i],
                          designParam |-> Round(Mul(w, One + 15000 * (i - 1)), 3),
                          fieldValue  |-> Round(Mul(w, One + 10000 * (i - 1)), 3),
                          syncLag     |-> Max(0, (5 - (i - 1)) * 2)]]])

-----------------------------------------------------------------------------
(* build_dataset *)

\* profile.asdict(): the twelve fields, None where the field holds None
asdict(p) ==
    [key \in DOMAIN p \ {"unset"} |-> IF key \in p.unset THEN None ELSE p[key]]

\* the optional argument of build_dataset
NoArgument == [given |-> FALSE, list |-> <<>>]

Given(list) == [given |-> TRUE, list |-> list]

\* list(profiles) if profiles is not None else build_profiles()
ProfilesSeq(arg) == IF arg.given THEN arg.list ELSE build_profiles

\* active_profile = profiles_seq[-1]
ActiveProfileLast(profiles_seq) == profiles_seq[Len(profiles_seq)]

\* active_profile = profiles_seq[0]
ActiveProfile(profiles_seq) == profiles_seq[1]

\* build_dataset(profiles) at clock reading now; a stage that raises ends it
build_dataset(arg, now) ==
    LET profiles_seq   == ProfilesSeq(arg)
        active_profile == ActiveProfile(profiles_seq)
        integrity      == analyze_parameter_integrity(active_profile)
        geometry       == generate_unit_geometry(active_profile)
        structural     == run_structural_verification(active_profile, geometry.val)
        corrections    == compute_error_correction(active_profile, geometry.val)
        association    == build_data_association(active_profile, corrections.val)
    IN  IF Len(profiles_seq) = 0 THEN Raise("IndexError")
        ELSE IF integrity.exc # "none" THEN Raise(integrity.exc)
        ELSE IF geometry.exc # "none" THEN Raise(geometry.exc)
        ELSE IF structural.exc # "none" THEN Raise(structural.exc)
        ELSE IF corrections.exc # "none" THEN Raise(corrections.exc)
        ELSE IF association.exc # "none" THEN Raise(association.exc)
        ELSE Ok([generatedAt     |-> now,
                 activeProfileId |-> active_profile.id,
                 profiles        |->
                     [i \in 1..Len(profiles_seq) |-> asdict(profiles_seq[i])],
                 integrity       |-> integrity.val,
                 geometry        |-> geometry.val,
                 structural      |-> structural.val,
                 corrections     |-> corrections.val,
                 association     |-> association.val])

-----------------------------------------------------------------------------
(* What a call leaves of the objects it was given *)

\* generate_unit_geometry keeping max(curvature_radius, 1) in the profile
AfterCallClamping(f, objects) ==
    IF f = "generate_unit_geometry"
    THEN [objects EXCEPT !.profile.curvature_radius = Max(@, Milli)]
    ELSE objects

\* The objects after function f returned or raised.  The five stages and
\* build_dataset bind local names and fill the lists and dicts they create;
\* no statement assigns to an attribute of a profile, to an item of a record
\* or list they were given, or to RULE_SET or MATERIAL_DENSITY.
AfterCall(f, objects) == objects

-----------------------------------------------------------------------------
(* The seed file and load_dataset (app.py) *)

\* JSON values as Python holds them: the type and, in a field of its own
\* name, the value
JNull == [j |-> "null"]

JNum(n) == [j |-> "number", number |-> n]

JStr(str) == [j |-> "string", string |-> str]

\* a list
JArr(items) == [j |-> "array", items |-> items]

\* a dict: its items in insertion order, each key once
JObj(members) == [j |-> "object", members |-> members]

Member(k, v) == [k |-> k, v |-> v]

\* A JSON text is the sequence of its tokens
Tok(t) == [t |-> t]

NumberTok(n) == [t |-> "number", number |-> n]

StringTok(str) == [t |-> "string", string |-> str]

RECURSIVE Dumps(_)
RECURSIVE DumpsItems(_, _)
RECURSIVE DumpsMembers(_, _)

\* json.dumps(value), as the seed file is written
Dumps(value) ==
    CASE value.j = "null" -> <<Tok("null")>>
      [] value.j = "number" -> <<NumberTok(value.number)>>
      [] value.j = "string" -> <<StringTok(value.string)>>
      [] value.j = "array" -> <<Tok("[")>> \o DumpsItems(value.items, 1) \o <<Tok("]")>>
      [] value.j = "object" ->
            <<Tok("{")>> \o DumpsMembers(value.members, 1) \o <<Tok("}")>>

DumpsItems(items, i) ==
    IF i > Len(items) THEN <<>>
    ELSE (IF i > 1 THEN <<Tok(",")>> ELSE <<>>)
         \o Dumps(items[i]) \o DumpsItems(items, i + 1)

DumpsMembers(members, i) ==
    IF i > Len(members) THEN <<>>
    ELSE (IF i > 1 THEN <<Tok(",")>> ELSE <<>>)
         \o <<StringTok(members[i].k), Tok(":")>>
         \o Dumps(members[i].v) \o DumpsMembers(members, i + 1)

\* the outcome of parsing from a position: the value and the position after it
Parsed(value, pos) == [ok |-> TRUE, val |-> value, pos |-> pos]

NotParsed == [ok |-> FALSE, val |-> JNull, pos |-> 0]

TokenAt(text, pos) == IF pos <= Len(text) THEN text[pos] ELSE Tok("end")

\* d[key] = value on a dict: a key already there keeps its place
SetItem(members, key, value) ==
    IF \E i \in 1..Len(members) : members[i].k = key
    THEN [i \in 1..Len(members) |->
             IF members[i].k = key THEN Member(key, value) ELSE members[i]]
    ELSE Append(members, Member(key, value))

RECURSIVE ParseValue(_, _)
RECURSIVE ParseItems(_, _, _)
RECURSIVE ParseMembers(_, _, _)

\* the decoder at token pos: null, a number, a string, a list or a dict
ParseValue(text, pos) ==
    LET tok == TokenAt(text, pos)
    IN  CASE tok.t = "null" -> Parsed(JNull, pos + 1)
          [] tok.t = "number" -> Parsed(JNum(tok.number), pos + 1)
          [] tok.t = "string" -> Parsed(JStr(tok.string), pos + 1)
          [] tok.t = "[" ->
                IF TokenAt(text, pos + 1).t = "]" THEN Parsed(JArr(<<>>), pos + 2)
                ELSE ParseItems(text, pos + 1, <<>>)
          [] tok.t = "{" ->
                IF TokenAt(text, pos + 1).t = "}" THEN Parsed(JObj(<<>>), pos + 2)
                ELSE ParseMembers(text, pos + 1, <<>>)
          [] OTHER -> NotParsed

\* the items of a list from pos on, after the items already read
ParseItems(text, pos, items) ==
    LET item == ParseValue(text, pos)
    IN  IF ~item.ok THEN NotParsed
        ELSE IF TokenAt(text, item.pos).t = ","
             THEN ParseItems(text, item.pos + 1, Append(items, item.val))
        ELSE IF TokenAt(text, item.pos).t = "]"
             THEN Parsed(JArr(Append(items, item.val)), item.pos + 1)
        ELSE NotParsed

\* the members of a dict from pos on, after the members already read
ParseMembers(text, pos, members) ==
    LET key   == TokenAt(text, pos)
        value == ParseValue(text, pos + 2)
    IN  IF key.t # "string" \/ TokenAt(text, pos + 1).t # ":" THEN NotParsed
        ELSE IF ~value.ok THEN NotParsed
        ELSE IF TokenAt(text, value.pos).t = ","
             THEN ParseMembers(text, value.pos + 1, SetItem(members, key.string, value.val))
        ELSE IF TokenAt(text, value.pos).t = "}"
             THEN Parsed(JObj(SetItem(members, key.string, value.val)), value.pos + 1)
        ELSE NotParsed

\* json.loads(text): one value and nothing after it, or JSONDecodeError
Loads(text) ==
    LET value == ParseValue(text, 1)
    IN  IF value.ok /\ value.pos = Len(text) + 1 THEN Ok(value.val)
        ELSE Raise("JSONDecodeError")

\* what DATA_PATH names
Absent == [kind |-> "absent", text |-> <<>>]

Directory == [kind |-> "directory", text |-> <<>>]

File(text) == [kind |-> "file", text |-> text]

\* DATA_PATH.exists()
Exists(path) == path.kind # "absent"

\* DATA_PATH.read_text()
ReadText(path) ==
    IF path.kind = "file" THEN Ok(path.text) ELSE Raise("IsADirectoryError")

\* an outcome together with the functions gone through
Through(out, fns) == [exc |-> out.exc, val |-> out.val, calls |-> fns]

\* load_dataset that builds the dataset when the file does not parse
load_dataset_fallback(path, now) ==
    LET text == ReadText(path)
    IN  IF Exists(path) /\ text.exc = "none" /\ Loads(text.val).exc = "none"
        THEN Through(Loads(text.val), <<"load_dataset">>)
        ELSE Through(build_dataset(NoArgument, now), <<"load_dataset", "build_dataset">>)

\* load_dataset() with DATA_PATH naming path, at clock reading now
load_dataset(path, now) ==
    LET text == ReadText(path)
    IN  IF Exists(path)
        THEN IF text.exc # "none" THEN Through(text, <<"load_dataset">>)
             ELSE Through(Loads(text.val), <<"load_dataset">>)
        ELSE Through(build_dataset(NoArgument, now), <<"load_dataset", "build_dataset">>)

-----------------------------------------------------------------------------
(* The session and its history (app.py) *)

\* st.session_state: the keys set so far and their values, and the widgets
\* the last run drew, which are the ones the user can have touched
EmptySession ==
    [keys |-> {}, history |-> <<>>, latest_result |-> None,
     form_profile |-> None, active_profile_id |-> None, widgets |-> {}]

\* a widget is drawn
Draw(state, widget) == [state EXCEPT !.widgets = @ \cup {widget}]

\* a run starts with an empty page
NewPage(state) == [state EXCEPT !.widgets = {}]

\* st.session_state[key] = value
Store(state, key, value) ==
    [state EXCEPT !.keys = @ \cup {key}, ![key] = value]

\* an outcome of a function that works on the session
InSession(exc, state) == [exc |-> exc, session |-> state]

\* key in d, for a dict d
HasKey(members, key) == \E i \in 1..Len(members) : members[i].k = key

\* d.get(key, default)
Get(members, key, default) ==
    IF HasKey(members, key)
    THEN members[CHOOSE i \in 1..Len(members) : members[i].k = key].v
    ELSE default

\* value[0]: of a list or string its first item, of a dict the item of key 0
FirstItem(value) ==
    CASE value.j = "array" ->
            IF Len(value.items) = 0 THEN Raise("IndexError") ELSE Ok(value.items[1])
      [] value.j = "string" ->
            IF value.string = "" THEN Raise("IndexError") ELSE Ok(JStr("character"))
      [] value.j = "object" -> Raise("KeyError")
      [] OTHER -> Raise("TypeError")

\* item["id"]: of a dict, or KeyError; nothing else takes a string index
ItemId(item) ==
    IF item.j # "object" THEN Raise("TypeError")
    ELSE IF ~HasKey(item.members, "id") THEN Raise("KeyError")
    ELSE Ok(Get(item.members, "id", JNull))

\* next((item for item in items if item["id"] == active_id), None) from item i
RECURSIVE NextWithId(_, _, _)
NextWithId(items, active_id, i) ==
    IF i > Len(items) THEN Ok(None)
    ELSE IF ItemId(items[i]).exc # "none" THEN Raise(ItemId(items[i]).exc)
    ELSE IF ItemId(items[i]).val = active_id THEN Ok(items[i])
    ELSE NextWithId(items, active_id, i + 1)

\* what iterating over a value yields: the items of a list; of a string its
\* characters and of a dict its keys, which are strings
Iterate(value) ==
    CASE value.j = "array" -> value.items
      [] value.j = "object" -> [i \in 1..Len(value.members) |-> JStr(value.members[i].k)]
      [] OTHER -> <<JStr("character")>>

init_session_state(state, dataset) ==
    LET with_history ==
            IF "history" \in state.keys THEN state ELSE Store(state, "history", <<>>)
        list         == Get(dataset.members, "profiles", JArr(<<>>))
        active_id    == Get(dataset.members, "activeProfileId", JNull)
        first        == FirstItem(list)
        found        == NextWithId(Iterate(list), active_id, 1)
        active       == IF found.val = None THEN first.val ELSE found.val
    IN  IF dataset.j # "object" THEN InSession("AttributeError", with_history)
        ELSE IF first.exc # "none" THEN InSession(first.exc, with_history)
        ELSE IF found.exc # "none" THEN InSession(found.exc, with_history)
        ELSE IF "form_profile" \in with_history.keys THEN InSession("none", with_history)
        ELSE IF ItemId(active).exc # "none"
             THEN InSession(ItemId(active).exc, Store(with_history, "form_profile", active))
        ELSE InSession("none",
                       Store(Store(with_history, "form_profile", active),
                             "active_profile_id", ItemId(active).val))

\* the entry update_history writes
Entry(stamp, p, structural, corrections, remark) ==
    [timestamp           |-> stamp,
     profile             |-> p.id,
     stabilityIndex      |-> structural.stabilityIndex,
     assemblySuitability |-> corrections.assemblySuitability,
     remark              |-> remark]

\* history[:n]
Slice(history, n) == SubSeq(history, 1, Min(n, Len(history)))

\* the previous entries cut at 12, so that 13 are kept
update_history_thirteen(state, stamp, p, structural, corrections, remark) ==
    IF "history" \notin state.keys THEN InSession("KeyError", state)
    ELSE InSession("none",
                   Store(state, "history",
                         <<Entry(stamp, p, structural, corrections, remark)>>
                             \o Slice(state.history, 12)))

\* update_history(profile, structural, corrections, remark) at clock stamp
update_history(state, stamp, p, structural, corrections, remark) ==
    IF "history" \notin state.keys THEN InSession("KeyError", state)
    ELSE InSession("none",
                   Store(state, "history",
                         <<Entry(stamp, p, structural, corrections, remark)>>
                             \o Slice(state.history, 11)))

-----------------------------------------------------------------------------
(* The form and main() (app.py) *)

\* the fields of a DesignProfile, in their order
ProfileKeys ==
    <<"id", "name", "module_width", "module_height", "module_depth",
      "curvature_radius", "tilt_angle", "mullion_spacing", "panel_thickness",
      "wind_speed", "thermal_gradient", "material">>

\* a serialised profile as a JSON value
ProfileValue(p) ==
    JObj([i \in 1..Len(ProfileKeys) |->
            Member(ProfileKeys[i],
                   IF ProfileKeys[i] \in {"id", "name", "material"}
                   THEN JStr(p[ProfileKeys[i]]) ELSE JNum(p[ProfileKeys[i]]))])

\* the dataset build_dataset returned, as the JSON value of the members the
\* console reads
ConsoleView(dataset) ==
    JObj(<<Member("generatedAt", JNum(dataset.generatedAt)),
           Member("activeProfileId", JStr(dataset.activeProfileId)),
           Member("profiles",
                  JArr([i \in 1..Len(dataset.profiles) |->
                           ProfileValue(dataset.profiles[i])]))>>)

\* what load_dataset returned, as the JSON value of what the console reads:
\* the file's content as it is, the dataset built as ConsoleView
DatasetOf(loaded) ==
    IF loaded.calls = <<"load_dataset">> THEN loaded.val ELSE ConsoleView(loaded.val)

\* name = value, followed by Rest(name): the value is computed once
Assign(value, Rest(_)) == CHOOSE out \in {Rest(name) : name \in {value}} : TRUE

\* item[key] for a string key: of a dict, or KeyError
Item(item, key) ==
    IF item.j # "object" THEN Raise("TypeError")
    ELSE IF ~HasKey(item.members, key) THEN Raise("KeyError")
    ELSE Ok(Get(item.members, key, JNull))

\* [f"{item['id']} . {item['name']}" for item in profiles] from item i on
RECURSIVE Labels(_, _)
Labels(items, i) ==
    IF i > Len(items) THEN Ok(<<>>)
    ELSE IF Item(items[i], "id").exc # "none" THEN Raise(Item(items[i], "id").exc)
    ELSE IF Item(items[i], "name").exc # "none" THEN Raise(Item(items[i], "name").exc)
    ELSE IF Labels(items, i + 1).exc # "none" THEN Labels(items, i + 1)
    ELSE Ok(<< <<Item(items[i], "id").val, Item(items[i], "name").val>> >>
            \o Labels(items, i + 1).val)

\* profile_labels.index(label)
IndexOf(labels, label) == CHOOSE i \in 1..Len(labels) :
    labels[i] = label /\ \A k \in 1..(i - 1) : labels[k] # label

\* next((index for index, item in enumerate(profiles)
\*       if item["id"] == active_profile_id), 0), counted from 1
ActiveIndex(items, active_profile_id) ==
    IF \E i \in 1..Len(items) : Item(items[i], "id").val = active_profile_id
    THEN CHOOSE i \in 1..Len(items) :
            /\ Item(items[i], "id").val = active_profile_id
            /\ \A k \in 1..(i - 1) : Item(items[k], "id").val # active_profile_id
    ELSE 1

\* the fields with a number_input, in the order of the form, and the range
\* of each in thousandths
NumberInputs ==
    <<"module_width", "module_height", "module_depth", "curvature_radius",
      "tilt_angle", "mullion_spacing", "panel_thickness", "wind_speed",
      "thermal_gradient">>

MinValue(key) ==
    CASE key = "wind_speed" -> 20000
      [] key = "thermal_gradient" -> 0
      [] OTHER -> heap.RULE_SET[key].min \div Milli

MaxValue(key) ==
    CASE key = "wind_speed" -> 60000
      [] key = "thermal_gradient" -> 30000
      [] OTHER -> heap.RULE_SET[key].max \div Milli

\* st.number_input(min_value, max_value, value=float(form_profile[key])):
\* the exception it raises, "none" when the widget is drawn
NumberInput(form_profile, key) ==
    LET value == Item(form_profile, key)
    IN  IF value.exc # "none" THEN value.exc
        ELSE IF value.val.j = "string" THEN "ValueError"
        ELSE IF value.val.j # "number" THEN "TypeError"
        ELSE IF value.val.number < MinValue(key) \/ value.val.number > MaxValue(key)
             THEN "StreamlitAPIException"
        ELSE "none"

\* ["aluminum", "glass", "steel"].index(form_profile["material"])
MaterialIndex(form_profile) ==
    LET value == Item(form_profile, "material")
    IN  IF value.exc # "none" THEN value.exc
        ELSE IF value.val \notin {JStr("aluminum"), JStr("glass"), JStr("steel")}
             THEN "ValueError"
        ELSE "none"

\* the first exception the widgets of the form raise, in the order they are made
RECURSIVE FormError(_, _)
FormError(form_profile, i) ==
    IF i = 0
    THEN IF Item(form_profile, "id").exc # "none" THEN Item(form_profile, "id").exc
         ELSE IF Item(form_profile, "name").exc # "none"
              THEN Item(form_profile, "name").exc
         ELSE FormError(form_profile, 1)
    ELSE IF i > Len(NumberInputs) THEN MaterialIndex(form_profile)
    ELSE IF NumberInput(form_profile, NumberInputs[i]) # "none"
         THEN NumberInput(form_profile, NumberInputs[i])
    ELSE FormError(form_profile, i + 1)

\* the value a widget gives back: what the user typed, else the value shown
Widget(form_profile, key, edits) ==
    IF key \in DOMAIN edits THEN edits[key] ELSE Item(form_profile, key).val

\* an outcome of the form: the session, the payload and the button
FormResult(exc, state, payload, submitted) ==
    [exc |-> exc, session |-> state, payload |-> payload, submitted |-> submitted]

\* the dict render_parameter_form builds from the widgets' values
UpdatedProfile(shown, edits) ==
    JObj([i \in 1..Len(ProfileKeys) |->
            Member(ProfileKeys[i],
                   IF ProfileKeys[i] = "id" /\ Widget(shown, "id", edits) = JStr("")
                   THEN JStr("CUSTOM")
                   ELSE IF ProfileKeys[i] = "name" /\ Widget(shown, "name", edits) = JStr("")
                   THEN JStr("Custom")
                   ELSE Widget(shown, ProfileKeys[i], edits))])

\* render_parameter_form from the form on: chosen is the session after the
\* selectbox
RenderForm(chosen, input) ==
    Assign(FormError(chosen.form_profile, 0),
           LAMBDA exc :
               IF exc # "none" THEN FormResult(exc, chosen, None, FALSE)
               ELSE Assign(UpdatedProfile(chosen.form_profile, input.edits),
                           LAMBDA updated_profile :
                               FormResult("none",
                                          Draw(Store(chosen, "form_profile",
                                                     updated_profile), "form"),
                                          updated_profile, input.submitted)))

\* render_parameter_form from the selectbox on: labels are profile_labels
SelectProfile(state, items, labels, input) ==
    LET label    == IF input.sel = 0
                    THEN labels[ActiveIndex(items, state.active_profile_id)]
                    ELSE labels[input.sel]
        selected == items[IndexOf(labels, label)]
    IN  IF "active_profile_id" \in state.keys
           /\ Item(selected, "id").val = state.active_profile_id
        THEN Draw(state, "selectbox")
        ELSE Draw(Store(Store(state, "form_profile", selected),
                        "active_profile_id", Item(selected, "id").val),
                  "selectbox")

\* render_parameter_form(profiles) with the user having chosen label sel (0:
\* the selectbox is as it comes up), typed edits and pressed the button or not
render_parameter_form(state, list, input) ==
    Assign(Iterate(list),
           LAMBDA items :
               Assign(Labels(items, 1),
                      LAMBDA labels :
                          IF labels.exc # "none"
                          THEN FormResult(labels.exc, state, None, FALSE)
                          ELSE Assign(SelectProfile(state, items, labels.val, input),
                                      LAMBDA chosen : RenderForm(chosen, input))))

\* profile_to_dataclass(payload)
profile_to_dataclass(payload) ==
    LET value(key) ==
            IF key \in {"id", "name", "material"}
            THEN Get(payload.members, key, JNull).string
            ELSE Get(payload.members, key, JNull).number
    IN  DesignProfile(value("id"), value("name"), value("module_width"),
                      value("module_height"), value("module_depth"),
                      value("curvature_radius"), value("tilt_angle"),
                      value("mullion_spacing"), value("panel_thickness"),
                      value("wind_speed"), value("thermal_gradient"), value("material"))

\* an outcome of main(): the session and the functions gone through
Ran(exc, state, fns) == [exc |-> exc, session |-> state, calls |-> fns]

\* what build_profiles() is to the form: dataclasses, which take no item access
Dataclasses == JArr([i \in 1..Len(build_profiles) |-> [j |-> "dataclass"]])

\* the part of main() under the condition: the five stages, latest_result and
\* the history entry
Recompute(state, payload, remark, stamp, fns) ==
    LET profile_dataclass == profile_to_dataclass(payload)
        integrity   == analyze_parameter_integrity(profile_dataclass)
        geometry    == generate_unit_geometry(profile_dataclass)
        structural  == run_structural_verification(profile_dataclass, geometry.val)
        corrections == compute_error_correction(profile_dataclass, geometry.val)
        association == build_data_association(profile_dataclass, corrections.val)
        latest      ==
            Store(state, "latest_result",
                  [profile |-> profile_dataclass, integrity |-> integrity.val,
                   geometry |-> geometry.val, structural |-> structural.val,
                   corrections |-> corrections.val, association |-> association.val,
                   remark |-> remark])
        recorded    == update_history(latest, stamp, profile_dataclass, structural.val,
                                      corrections.val, remark)
        stages      ==
            <<"profile_to_dataclass", "analyze_parameter_integrity",
              "generate_unit_geometry", "run_structural_verification",
              "compute_error_correction", "build_data_association">>
    IN  IF integrity.exc # "none" THEN Ran(integrity.exc, state, fns \o SubSeq(stages, 1, 2))
        ELSE IF geometry.exc # "none"
             THEN Ran(geometry.exc, state, fns \o SubSeq(stages, 1, 3))
        ELSE IF structural.exc # "none"
             THEN Ran(structural.exc, state, fns \o SubSeq(stages, 1, 4))
        ELSE IF corrections.exc # "none"
             THEN Ran(corrections.exc, state, fns \o SubSeq(stages, 1, 5))
        ELSE IF association.exc # "none"
             THEN Ran(association.exc, state, fns \o stages)
        ELSE Ran(recorded.exc, recorded.session, fns \o stages \o <<"update_history">>)

\* main() from the condition on: form is what render_parameter_form returned
\* and fns the functions gone through so far
main_result(form, now, fns) ==
    LET remark == <<"remark", Get(form.payload.members, "name", JNull).string>>
    IN  IF form.exc # "none" THEN Ran(form.exc, form.session, fns)
        ELSE IF form.submitted \/ "latest_result" \notin form.session.keys
        THEN Assign(Recompute(form.session, form.payload, remark, now, fns),
                    LAMBDA result :
                        IF result.exc # "none" THEN result
                        ELSE Ran("none", result.session,
                                 result.calls \o <<"render_history">>))
        ELSE Ran("none", form.session, fns \o <<"render_history">>)

\* main() after load_dataset, which returned dataset
main_session(state, dataset, input, now, fns) ==
    Assign(init_session_state(NewPage(state), dataset),
           LAMBDA init :
               IF init.exc # "none"
               THEN Ran(init.exc, init.session, fns \o <<"init_session_state">>)
               ELSE Assign(render_parameter_form(
                               init.session,
                               Get(dataset.members, "profiles", Dataclasses), input),
                           LAMBDA form :
                               main_result(form, now,
                                           fns \o <<"init_session_state",
                                                    "render_parameter_form">>)))

\* one run of main(): the user has done input, and the clock reads now
main(state, path, input, now) ==
    Assign(load_dataset(path, now),
           LAMBDA loaded :
               IF loaded.exc # "none"
               THEN Ran(loaded.exc, NewPage(state), loaded.calls)
               ELSE Assign(DatasetOf(loaded),
                           LAMBDA dataset :
                               main_session(state, dataset, input, now, loaded.calls)))

-----------------------------------------------------------------------------
(* The inputs the calls are made with *)

\* module_height values of 1..MaxHeightCm centimetres are tried
MaxHeightCm == 8

\* build_dataset is given lists of up to MaxProfiles profiles
MaxProfiles == 2

\* clock readings 0..MaxClock stand for datetime.utcnow()
MaxClock == 1

Reference == {build_profiles[i] : i \in 1..Len(build_profiles)}

Materials == {"aluminum", "glass", "steel", "titanium"}

\* a reference profile with one field changed
OneFieldVariations(b) ==
    {[b EXCEPT !.module_width = x] : x \in {-1250, 0, 800, 1800}}
    \cup {[b EXCEPT !.module_height = x * 10] : x \in 1..MaxHeightCm}
    \cup {[b EXCEPT !.module_height = x] : x \in {-3450, 0, 2400, 3455, 4200}}
    \cup {[b EXCEPT !.module_depth = x] : x \in {-240, 0, 180, 350}}
    \cup {[b EXCEPT !.curvature_radius = x] : x \in {-5000, 0, 500, 8000, 60000}}
    \cup {[b EXCEPT !.tilt_angle = x] : x \in {-90000, -3000, 0, 1, 9000, 90000}}
    \cup {[b EXCEPT !.mullion_spacing = x] : x \in {0, 1000, 2200}}
    \cup {[b EXCEPT !.panel_thickness = x] : x \in {-21, 0, 16, 32}}
    \cup {[b EXCEPT !.wind_speed = x] : x \in {0, 20000, 60000, 200000}}
    \cup {[b EXCEPT !.thermal_gradient = x] : x \in {-20000, 0, 30000, 2000000}}
    \cup {[b EXCEPT !.material = x] : x \in Materials}

\* the corners of the range the rules allow, for each material
RuleCorners ==
    {[build_profiles[1] EXCEPT !.module_width = w, !.module_height = h,
                               !.module_depth = d, !.curvature_radius = r,
                               !.tilt_angle = t, !.panel_thickness = pt,
                               !.material = m] :
        w \in {800, 1800}, h \in {2400, 4200}, d \in {180, 350},
        r \in {8000, 60000}, t \in {-3000, 0, 9000}, pt \in {16, 32},
        m \in {"aluminum", "steel", "titanium"}}

\* degenerate profiles: the raw path weights cancel or vanish
Degenerate ==
    { DesignProfile("ZX-01", "Mirrored unit",
                    -1000, 1000, 500, 1000, 0, 1420, 2418, 34000, 16000, "steel"),
      DesignProfile("ZX-02", "Flat unit",
                    1250, 0, 240, 28000, 3500, 1420, 0, 34000, 16000, "aluminum") }

\* profiles with every field set
Profiles == Reference \cup UNION {OneFieldVariations(b) : b \in Reference}
            \cup RuleCorners \cup Degenerate

\* profiles in which one ruled field holds None
UnsetProfiles ==
    {[b EXCEPT !.unset = {required_keys[i]}] : b \in Reference, i \in 1..Len(required_keys)}

\* a geometry record that did not come from generate_unit_geometry
Geometry(frame_weight, curvature, tilt_response, path_weights) ==
    [projectedArea |-> 0, envelopeVolume |-> 0, frameWeight |-> frame_weight,
     controlPoints |-> <<>>, pathWeights |-> path_weights,
     dynamicCoefficients |->
         [curvatureInfluence |-> curvature, tiltResponse |-> tilt_response,
          mullionCoupling |-> 0, thicknessRatio |-> 0]]

ForeignGeometries ==
    { Geometry(0, 0, 0, <<Fin(One)>>),
      Geometry(2000 * One, 1000 * One, -45 * One, <<Fin(250000), Fin(250000), Fin(250000), Fin(250000)>>),
      Geometry(-500 * One, -100 * One, 1000, <<NaN, PosInf, NegInf, Fin(0)>>),
      Geometry(10 * One, 50000, 10000, <<Fin(500000), Fin(500000)>>) }

\* a corrections record that did not come from compute_error_correction
Corrections(suitability) ==
    [iterations |-> <<>>, residualDeviation |-> 0, assemblySuitability |-> suitability]

ForeignCorrections ==
    {Corrections(x * One) : x \in {-1000, -70, 0, 50, 100, 1000}}

\* the geometry records a caller passes with profile p
GeometriesFor(p) ==
    ForeignGeometries
    \cup (IF generate_unit_geometry(p).exc = "none"
          THEN {generate_unit_geometry(p).val} ELSE {})

\* the corrections records a caller passes with profile p
CorrectionsFor(p) ==
    ForeignCorrections
    \cup {compute_error_correction(p, g).val : g \in GeometriesFor(p)}

\* the profile lists build_dataset is given
ListProfiles ==
    Reference \cup {[build_profiles[1] EXCEPT !.module_width = 0],
                    [build_profiles[2] EXCEPT !.material = "titanium"]}

ProfileLists ==
    UNION {[1..n -> ListProfiles] : n \in 0..MaxProfiles}

\* corrupt seed files: the first 0..MaxPrefix tokens of a dataset's text
MaxPrefix == 6

\* a dataset as a JSON value, with the members the console reads
DatasetValue(active_id, list) ==
    JObj(<<Member("generatedAt", JStr("2024-01-01T00:00:00Z")),
           Member("activeProfileId", JStr(active_id)),
           Member("profiles", JArr([i \in 1..Len(list) |-> ProfileValue(list[i])]))>>)

\* the JSON values a valid seed file holds
SeedValues ==
    { DatasetValue("DX-02", <<build_profiles[2]>>),
      DatasetValue("DX-01", <<build_profiles[3], build_profiles[1]>>),
      DatasetValue("DX-09", <<build_profiles[2], build_profiles[3]>>),
      DatasetValue("DX-02", <<[build_profiles[2] EXCEPT !.material = "titanium"],
                              build_profiles[1]>>),
      DatasetValue("DX-01", <<[build_profiles[1] EXCEPT !.module_width = 0]>>),
      JObj(<<Member("activeProfileId", JNull), Member("profiles", JArr(<<>>))>>),
      JObj(<<>>), JArr(<<>>), JArr(<<JNum(1), JArr(<<JNull>>)>>), JNull }

\* a valid text in which one key comes twice: {"profiles": [], "profiles": [1]}
TwiceText ==
    <<Tok("{"), StringTok("profiles"), Tok(":"), Tok("["), Tok("]"),
      Tok(","), StringTok("profiles"), Tok(":"),
      Tok("["), NumberTok(1), Tok("]"), Tok("}")>>

ValidTexts == {Dumps(value) : value \in SeedValues} \cup {TwiceText}

\* texts json.loads rejects: a dataset cut short, and texts with more after
\* the value or with a member or an item missing
CorruptTexts ==
    {SubSeq(Dumps(DatasetValue("DX-02", <<build_profiles[2]>>)), 1, n) : n \in 0..MaxPrefix}
    \cup { <<Tok("{"), Tok("}"), Tok("}")>>,
           <<Tok("null"), Tok("null")>>,
           <<Tok("["), NumberTok(1), Tok(","), Tok("]")>>,
           <<Tok("{"), StringTok("profiles"), Tok("["), Tok("]"), Tok("}")>>,
           <<Tok("{"), NumberTok(1), Tok(":"), Tok("null"), Tok("}")>>,
           <<Tok("]")>> }

\* the datasets init_session_state is called with on its own
SessionDatasets ==
    { DatasetValue("DX-03", build_profiles), JObj(<<>>), JArr(<<>>) }

\* a structural record that did not come from run_structural_verification
Structural(stability) ==
    [windPressure |-> 0, deadLoad |-> 0, stabilityIndex |-> stability,
     stressDistribution |-> <<>>]

\* the calls of update_history made on their own
HistoryCalls ==
    { [stamp |-> 0, profile |-> build_profiles[1], structural |-> Structural(100 * One),
       corrections |-> Corrections(100 * One), remark |-> <<"remark", "first">>],
      [stamp |-> 1, profile |-> build_profiles[2], structural |-> Structural(0),
       corrections |-> Corrections(50 * One), remark |-> <<"remark", "second">>] }

\* a session is followed until MaxRuns results are in its history
MaxRuns == 2

\* the runs of main() read the clock as 0..MaxStamp
MaxStamp == 0

\* the labels of the selectbox, with path as the seed
Choices(path) ==
    Assign(load_dataset(path, 0),
           LAMBDA loaded :
               IF loaded.exc # "none" THEN {}
               ELSE Assign(DatasetOf(loaded),
                           LAMBDA dataset :
                               IF dataset.j # "object" THEN {}
                               ELSE Assign(Get(dataset.members, "profiles", JArr(<<>>)),
                                           LAMBDA list :
                                               IF list.j = "array"
                                               THEN 1..Len(list.items) ELSE {})))

\* what the user can type into the form: nothing, or the lowest module_height
Edits == {<<>>, [module_height |-> JNum(2400)]}

\* what the user can have done on the page the last run drew
FormInputs(state, path) ==
    {[sel |-> sel, edits |-> edits, submitted |-> submitted] :
        sel \in IF "selectbox" \in state.widgets THEN Choices(path) ELSE {0},
        edits \in IF "form" \in state.widgets THEN Edits ELSE {<<>>},
        submitted \in IF "form" \in state.widgets THEN BOOLEAN ELSE {FALSE}}

\* what DATA_PATH may name when the console starts
Seeds ==
    {Absent, Directory} \cup {File(text) : text \in ValidTexts \cup CorruptTexts}

-----------------------------------------------------------------------------
(* The machine: one call at a time *)

Init ==
    /\ fn = "none"
    /\ profile = None
    /\ record = None
    /\ profiles = NoArgument
    /\ raised = "none"
    /\ ret = None
    /\ seed = Absent
    /\ session = EmptySession
    /\ calls = <<>>
    /\ heap = Heap(None, None, NoArgument, RULE_SET, MATERIAL_DENSITY)

\* the state after function f was called and ended with outcome out
Called(f, p, r, arg, out) ==
    /\ fn' = f
    /\ profile' = p
    /\ record' = r
    /\ profiles' = arg
    /\ raised' = out.exc
    /\ ret' = out.val
    /\ heap' = AfterCall(f, Heap(p, r, arg, heap.RULE_SET, heap.MATERIAL_DENSITY))
    /\ UNCHANGED <<seed, session, calls>>

AnalyzeParameterIntegrity ==
    /\ fn = "none"
    /\ \E p \in Profiles \cup UnsetProfiles :
          Called("analyze_parameter_integrity", p, None, NoArgument,
                 analyze_parameter_integrity(p))

GenerateUnitGeometry ==
    /\ fn = "none"
    /\ \E p \in Profiles \cup UnsetProfiles :
          Called("generate_unit_geometry", p, None, NoArgument,
                 generate_unit_geometry(p))

RunStructuralVerification ==
    /\ fn = "none"
    /\ \E p \in Profiles : \E g \in GeometriesFor(p) :
          Called("run_structural_verification", p, g, NoArgument,
                 run_structural_verification(p, g))

ComputeErrorCorrection ==
    /\ fn = "none"
    /\ \E p \in Profiles : \E g \in GeometriesFor(p) :
          Called("compute_error_correction", p, g, NoArgument,
                 compute_error_correction(p, g))

BuildDataAssociation ==
    /\ fn = "none"
    /\ \E p \in Profiles : \E c \in CorrectionsFor(p) :
          Called("build_data_association", p, c, NoArgument,
                 build_data_association(p, c))

BuildDataset ==
    /\ fn = "none"
    /\ \E arg \in {NoArgument} \cup {Given(l) : l \in ProfileLists} :
       \E now \in 0..MaxClock :
          Called("build_dataset", None, None, arg, build_dataset(arg, now))

\* the caller takes the outcome; the next call starts afresh
Return ==
    /\ fn # "none"
    /\ fn' = "none"
    /\ profile' = None
    /\ record' = None
    /\ profiles' = NoArgument
    /\ raised' = "none"
    /\ ret' = None
    /\ UNCHANGED <<seed, session>>
    /\ calls' = <<>>
    /\ heap' = Heap(None, None, NoArgument, heap.RULE_SET, heap.MATERIAL_DENSITY)

LoadDataset ==
    /\ fn = "none"
    /\ \E now \in 0..MaxClock :
          LET out == load_dataset(seed, now)
          IN  /\ fn' = "load_dataset"
              /\ raised' = out.exc
              /\ ret' = out.val
              /\ calls' = out.calls
              /\ UNCHANGED <<profile, record, profiles, seed, session, heap>>

InitSessionState ==
    /\ fn = "none"
    /\ \E dataset \in SessionDatasets :
          LET out == init_session_state(session, dataset)
          IN  /\ fn' = "init_session_state"
              /\ record' = dataset
              /\ raised' = out.exc
              /\ session' = out.session
              /\ UNCHANGED <<profile, profiles, ret, seed, calls, heap>>

UpdateHistory ==
    /\ fn = "none"
    /\ \E call \in HistoryCalls :
          LET out == update_history(session, call.stamp, call.profile, call.structural,
                                    call.corrections, call.remark)
          IN  /\ fn' = "update_history"
              /\ profile' = call.profile
              /\ record' = [stamp |-> call.stamp, structural |-> call.structural,
                            corrections |-> call.corrections, remark |-> call.remark]
              /\ raised' = out.exc
              /\ session' = out.session
              /\ UNCHANGED <<profiles, ret, seed, calls, heap>>

Next ==
    \/ AnalyzeParameterIntegrity
    \/ GenerateUnitGeometry
    \/ RunStructuralVerification
    \/ ComputeErrorCorrection
    \/ BuildDataAssociation
    \/ BuildDataset
    \/ Return

Spec == Init /\ [][Next]_vars

\* the console: DATA_PATH names anything, the session is new
AppInit ==
    /\ fn = "none"
    /\ profile = None
    /\ record = None
    /\ profiles = NoArgument
    /\ raised = "none"
    /\ ret = None
    /\ seed \in Seeds
    /\ session = EmptySession
    /\ calls = <<>>
    /\ heap = Heap(None, None, NoArgument, RULE_SET, MATERIAL_DENSITY)

Main ==
    /\ fn = "none"
    /\ Len(session.history) < MaxRuns
    /\ \E input \in FormInputs(session, seed), now \in 0..MaxStamp :
          \E out \in {main(session, seed, input, now)} :
              /\ fn' = "main"
              /\ record' = input
              /\ raised' = out.exc
              /\ session' = out.session
              /\ calls' = out.calls
              /\ UNCHANGED <<profile, profiles, ret, seed, heap>>

\* the session on its own: it is prepared, and results are recorded
HistoryNext ==
    \/ InitSessionState
    \/ UpdateHistory
    \/ Return

HistorySpec == Init /\ [][HistoryNext]_vars

AppNext ==
    \/ LoadDataset
    \/ Main
    \/ Return

AppSpec == AppInit /\ [][AppNext]_vars

-----------------------------------------------------------------------------
(* The properties *)

Returned(f) == fn = f /\ raised = "none"

\* C1: the stabilityIndex returned by run_structural_verification and the
\* assemblySuitability returned by compute_error_correction lie in [0, 100],
\* whatever profile and geometry record were passed in.
C1_ScoresWithin0And100 ==
    /\ Returned("run_structural_verification") =>
          ret.stabilityIndex >= 0 /\ ret.stabilityIndex <= 100 * One
    /\ Returned("compute_error_correction") =>
          ret.assemblySuitability >= 0 /\ ret.assemblySuitability <= 100 * One

\* C1 witness: with a heavy foreign geometry the mean stress difference
\* exceeds 3, so 100 - mean * 38 is below zero, and the returned index is 0.
C1_Witness ==
    /\ Returned("run_structural_verification")
    /\ record.frameWeight = 2000 * One
    /\ ret.stabilityIndex = 0
    /\ DivInt(SumAbsDiff(ret.stressDistribution, 7), 7) > 3 * One

\* C2: each of the 5 correlation values returned by build_data_association
\* lies in [0.4, 0.98], whatever corrections record was passed in.
C2_CorrelationsWithinBand ==
    Returned("build_data_association") =>
        /\ Len(ret.correlations) = 5
        /\ \A i \in 1..5 :
              /\ ret.correlations[i].correlation >= 400000
              /\ ret.correlations[i].correlation <= 980000

\* C2 witness: a corrections record whose suitability is far below zero gives
\* a correlation at the lower edge of the band, one at 100 the upper edge.
C2_Witness ==
    /\ Returned("build_data_association")
    /\ record.assemblySuitability = -1000 * One
    /\ ret.correlations[1].correlation = 400000

\* positive width, height, depth, curvature radius and panel thickness
ValidProfile(p) ==
    /\ p.unset = {}
    /\ p.module_width > 0
    /\ p.module_height > 0
    /\ p.module_depth > 0
    /\ p.curvature_radius > 0
    /\ p.panel_thickness > 0

AllFinite(path_weights) ==
    \A i \in 1..Len(path_weights) : path_weights[i].kind = "finite"

SumWeights(path_weights) ==
    path_weights[1].v + path_weights[2].v + path_weights[3].v + path_weights[4].v

\* C3: for a valid profile the four pathWeights returned by
\* generate_unit_geometry are finite and sum to 1.0 within 0.005.
C3_PathWeightsSumToOne ==
    (Returned("generate_unit_geometry") /\ ValidProfile(profile)) =>
        /\ Len(ret.pathWeights) = 4
        /\ AllFinite(ret.pathWeights)
        /\ Abs(SumWeights(ret.pathWeights) - One) <= 5000

\* C3 witness: DX-02, a valid profile, whose rounded weights sum to 1.001.
C3_Witness ==
    /\ Returned("generate_unit_geometry")
    /\ ValidProfile(profile)
    /\ profile.id = "DX-02"
    /\ SumWeights(ret.pathWeights) = 1001000

Elevations(stress_records) ==
    [i \in 1..Len(stress_records) |-> stress_records[i].elevation]

StrictlyIncreasing(seq) == \A i \in 1..(Len(seq) - 1) : seq[i] < seq[i + 1]

NonDecreasing(seq) == \A i \in 1..(Len(seq) - 1) : seq[i] <= seq[i + 1]

\* C4 as claimed: for a positive module_height the 7 records, numbered 1..7,
\* have strictly increasing elevations from 0 to module_height.
C4_AsClaimed ==
    (Returned("run_structural_verification") /\ profile.module_height > 0) =>
        /\ Len(ret.stressDistribution) = 7
        /\ \A i \in 1..7 : ret.stressDistribution[i].node = i
        /\ StrictlyIncreasing(Elevations(ret.stressDistribution))
        /\ ret.stressDistribution[1].elevation = 0
        /\ ret.stressDistribution[7].elevation = Attr(profile, "module_height")

\* C4 amended: for a positive module_height there are exactly 7 records,
\* numbered 1..7, whose elevations never decrease from 0 at the first to
\* module_height rounded to two decimals at the last; they are strictly
\* increasing when module_height is at least 0.06.
C4_ElevationsTwoDecimals ==
    (Returned("run_structural_verification") /\ profile.module_height > 0) =>
        /\ Len(ret.stressDistribution) = 7
        /\ \A i \in 1..7 : ret.stressDistribution[i].node = i
        /\ NonDecreasing(Elevations(ret.stressDistribution))
        /\ ret.stressDistribution[1].elevation = 0
        /\ ret.stressDistribution[7].elevation = Round(Attr(profile, "module_height"), 2)
        /\ profile.module_height >= 60 =>
              StrictlyIncreasing(Elevations(ret.stressDistribution))

\* C4 witness: module_height 3.455 gives strictly increasing elevations that
\* end at 3.46, not at module_height.
C4_Witness ==
    /\ Returned("run_structural_verification")
    /\ profile.module_height = 3455
    /\ StrictlyIncreasing(Elevations(ret.stressDistribution))
    /\ ret.stressDistribution[7].elevation = 3460000

Magnitudes(iterations, field) ==
    [i \in 1..Len(iterations) |-> Abs(iterations[i][field])]

\* seq[1..n] strictly decreasing
StrictlyDecreasingTo(seq, n) == \A i \in 1..(n - 1) : seq[i] > seq[i + 1]

\* seq[1..n] never increasing
NonIncreasingTo(seq, n) == \A i \in 1..(n - 1) : seq[i] >= seq[i + 1]

\* C5 as claimed: 5 iteration records, and the magnitudes of deviationMm and
\* of shapeOffsetDeg strictly decrease across iterations 1 to 4.
C5_AsClaimed ==
    Returned("compute_error_correction") =>
        /\ Len(ret.iterations) = 5
        /\ StrictlyDecreasingTo(Magnitudes(ret.iterations, "deviationMm"), 4)
        /\ StrictlyDecreasingTo(Magnitudes(ret.iterations, "shapeOffsetDeg"), 4)

\* C5 amended: 5 iteration records, numbered 1..5; the magnitudes of
\* deviationMm and of shapeOffsetDeg never increase across iterations 1 to 4,
\* and strictly decrease when the drift, respectively the geometry's
\* tiltResponse, has magnitude at least 0.01.
C5_MagnitudesShrink ==
    Returned("compute_error_correction") =>
        /\ Len(ret.iterations) = 5
        /\ \A i \in 1..5 : ret.iterations[i].iteration = i
        /\ NonIncreasingTo(Magnitudes(ret.iterations, "deviationMm"), 4)
        /\ NonIncreasingTo(Magnitudes(ret.iterations, "shapeOffsetDeg"), 4)
        /\ Abs(Drift(profile, record)) >= 10000 =>
              StrictlyDecreasingTo(Magnitudes(ret.iterations, "deviationMm"), 4)
        /\ Abs(record.dynamicCoefficients.tiltResponse) >= 10000 =>
              StrictlyDecreasingTo(Magnitudes(ret.iterations, "shapeOffsetDeg"), 4)

\* C5 witness: a profile with tilt_angle 0 and its own geometry: deviationMm
\* strictly decreases while shapeOffsetDeg stays 0 in every iteration.
C5_Witness ==
    /\ Returned("compute_error_correction")
    /\ profile.tilt_angle = 0
    /\ record = generate_unit_geometry(profile).val
    /\ StrictlyDecreasingTo(Magnitudes(ret.iterations, "deviationMm"), 4)
    /\ \A i \in 1..5 : ret.iterations[i].shapeOffsetDeg = 0

RawTotal(raw) == raw[1] + raw[2] + raw[3] + raw[4]

\* C7 as claimed: with module_width, module_depth or curvature_radius zero or
\* negative, generate_unit_geometry raises nothing and its result holds
\* not-a-number or infinite values.
C7_AsClaimed ==
    (/\ fn = "generate_unit_geometry"
     /\ profile.unset = {}
     /\ \/ profile.module_width <= 0
        \/ profile.module_depth <= 0
        \/ profile.curvature_radius <= 0) =>
        /\ raised = "none"
        /\ ~AllFinite(ret.pathWeights)

\* C7 amended: generate_unit_geometry raises ZeroDivisionError exactly when
\* module_width or module_depth is zero; with negative values, or with any
\* curvature_radius, it returns.  A curvature_radius of zero or less counts
\* as 1 (curvatureInfluence 120), and the result holds not-a-number or
\* infinite values, in pathWeights only, exactly when the four raw path
\* weights sum to zero.
C7_ZeroRaisesNegativeReturns ==
    (fn = "generate_unit_geometry" /\ profile.unset = {}) =>
        /\ raised = IF profile.module_width = 0 \/ profile.module_depth = 0
                    THEN "ZeroDivisionError" ELSE "none"
        /\ raised = "none" =>
              /\ AllFinite(ret.pathWeights) <=> RawTotal(PathWeightsRaw(profile)) # 0
              /\ profile.curvature_radius <= 0 =>
                    ret.dynamicCoefficients.curvatureInfluence = 120 * One

\* C7 witness: module_width 0 and the call ended with ZeroDivisionError.
C7_Witness ==
    /\ fn = "generate_unit_geometry"
    /\ profile.unset = {}
    /\ profile.module_width = 0
    /\ raised = "ZeroDivisionError"
    /\ ret = None

\* the density the claim names for each material
ClaimedDensity(material) ==
    CASE material = "aluminum" -> 27000000
      [] material = "glass"    -> 25000000
      [] material = "steel"    -> 78500000
      [] OTHER                 -> 30000000

\* C8: for a material other than aluminum, glass or steel,
\* generate_unit_geometry does not fail and computes frameWeight with density
\* 30.0; for the three known materials it uses 27.0, 25.0 and 78.5.
C8_DensityByMaterial ==
    (fn = "generate_unit_geometry" /\ profile.unset = {}) =>
        /\ (profile.module_width # 0 /\ profile.module_depth # 0) => raised = "none"
        /\ raised = "none" =>
              ret.frameWeight =
                  Round(Mul(Mul(Mul(Mul(Attr(profile, "module_width"),
                                        Attr(profile, "module_height")),
                                    Attr(profile, "module_depth")),
                                ClaimedDensity(profile.material)),
                            850000), 2)

\* C8 witness: DX-01 made of titanium returns frameWeight 26.39, which is
\* round(1.035 * 30.0 * 0.85, 2).
C8_Witness ==
    /\ Returned("generate_unit_geometry")
    /\ profile.id = "DX-01"
    /\ profile.material = "titanium"
    /\ profile.module_width = 1250
    /\ profile.module_height = 3450
    /\ profile.module_depth = 240
    /\ ret.frameWeight = 26390000

\* the keys of a serialised profile agree with the profile
SameFields(dict, p) ==
    /\ DOMAIN dict = DOMAIN p \ {"unset"}
    /\ \A key \in DOMAIN dict : dict[key] = p[key]

\* C9: build_dataset given a non-empty list returns the first profile's id
\* as activeProfileId, the five stage outputs for that first profile, and
\* every given profile in the given order; given no argument it uses the
\* reference profiles DX-01, DX-02, DX-03 in that order.
C9_DatasetOfFirstProfile ==
    Returned("build_dataset") =>
        LET given == IF profiles.given THEN profiles.list ELSE build_profiles
            first == given[1]
            g     == generate_unit_geometry(first).val
            c     == compute_error_correction(first, g).val
        IN  /\ ret.activeProfileId = first.id
            /\ ret.integrity = analyze_parameter_integrity(first).val
            /\ ret.geometry = g
            /\ ret.structural = run_structural_verification(first, g).val
            /\ ret.corrections = c
            /\ ret.association = build_data_association(first, c).val
            /\ Len(ret.profiles) = Len(given)
            /\ \A i \in 1..Len(given) : SameFields(ret.profiles[i], given[i])
            /\ ~profiles.given =>
                  /\ Len(ret.profiles) = 3
                  /\ ret.profiles[1].id = "DX-01"
                  /\ ret.profiles[2].id = "DX-02"
                  /\ ret.profiles[3].id = "DX-03"
                  /\ ret.activeProfileId = "DX-01"

\* C9 witness: a list of two different profiles, DX-03 first, was given and
\* the dataset came back with DX-03 active.
C9_Witness ==
    /\ Returned("build_dataset")
    /\ profiles.given
    /\ Len(profiles.list) = 2
    /\ profiles.list[1].id = "DX-03"
    /\ profiles.list[2].id = "DX-01"
    /\ ret.activeProfileId = "DX-03"

\* the DX-01 reference profile, as the specification lists it
IsDX01(p) ==
    /\ p.unset = {}
    /\ p.module_width = 1250
    /\ p.module_height = 3450
    /\ p.module_depth = 240
    /\ p.curvature_radius = 28000
    /\ p.tilt_angle = 3500
    /\ p.mullion_spacing = 1420
    /\ p.panel_thickness = 21
    /\ p.wind_speed = 34000
    /\ p.thermal_gradient = 16000
    /\ p.material = "aluminum"

\* C10 as claimed: for DX-01 generate_unit_geometry returns projectedArea
\* 4.3125, envelopeVolume 1.035 and frameWeight round(1.035 * 27.0 * 0.85, 2).
C10_AsClaimed ==
    (fn = "generate_unit_geometry" /\ IsDX01(profile)) =>
        /\ raised = "none"
        /\ ret.projectedArea = 4312500
        /\ ret.envelopeVolume = 1035000
        /\ ret.frameWeight = Round(Mul(Mul(1035000, 27000000), 850000), 2)

\* C10 amended: for DX-01 generate_unit_geometry returns projectedArea 4.312
\* (4.3125 rounded to 3 decimals, the tie going to the even digit),
\* envelopeVolume 1.035 and frameWeight round(1.035 * 27.0 * 0.85, 2) = 23.75.
C10_DX01Geometry ==
    (fn = "generate_unit_geometry" /\ IsDX01(profile)) =>
        /\ raised = "none"
        /\ ret.projectedArea = 4312000
        /\ ret.envelopeVolume = 1035000
        /\ ret.frameWeight = Round(Mul(Mul(1035000, 27000000), 850000), 2)
        /\ ret.frameWeight = 23750000

\* C10 witness: generate_unit_geometry returned for DX-01 with a projected
\* area of three decimals.
C10_Witness ==
    /\ Returned("generate_unit_geometry")
    /\ IsDX01(profile)
    /\ profile.id = "DX-01"
    /\ ret.projectedArea % 1000 = 0
    /\ ret.projectedArea < 4312500

RuledFields == {required_keys[i] : i \in 1..Len(required_keys)}

\* every ruled field lies within the [min, max] of its rule
WithinRules(p) ==
    \A key \in RuledFields :
        Attr(p, key) >= RULE_SET[key].min /\ Attr(p, key) <= RULE_SET[key].max

\* the indicator of a field whose gap is at the cap: round(100 - 1.8 * 55 * weight, 2)
LowestIndicator(key) ==
    Round(100 * One - Mul(Mul(1800000, 55 * One), RULE_SET[key].weight), 2)

\* C11 as claimed: each of the 7 normalizedIndicators values returned by
\* analyze_parameter_integrity lies within 0 to 100, for every profile.
C11_AsClaimed ==
    Returned("analyze_parameter_integrity") =>
        /\ DOMAIN ret.normalizedIndicators = RuledFields
        /\ \A key \in RuledFields :
              /\ ret.normalizedIndicators[key] >= 0
              /\ ret.normalizedIndicators[key] <= 100 * One

\* C11 amended: analyze_parameter_integrity returns 7 normalizedIndicators,
\* one per ruled field, each at most 100 and at least
\* round(100 - 1.8 * 55 * weight, 2), which is below zero for module_height
\* (-18.8) and curvature_radius (-8.9); all 7 lie within 0 to 100 when every
\* ruled field of the profile is within the [min, max] of its rule.
C11_IndicatorsBounded ==
    Returned("analyze_parameter_integrity") =>
        /\ DOMAIN ret.normalizedIndicators = RuledFields
        /\ \A key \in RuledFields :
              /\ ret.normalizedIndicators[key] <= 100 * One
              /\ ret.normalizedIndicators[key] >= LowestIndicator(key)
        /\ WithinRules(profile) =>
              \A key \in RuledFields : ret.normalizedIndicators[key] >= 0
        /\ LowestIndicator("module_height") = -18800000
        /\ LowestIndicator("curvature_radius") = -8900000

\* C11 witness: module_height 0.01 puts the gap at the cap, and the
\* module_height indicator returned is -18.8.
C11_Witness ==
    /\ Returned("analyze_parameter_integrity")
    /\ profile.module_height = 10
    /\ ~WithinRules(profile)
    /\ ret.normalizedIndicators["module_height"] = -18800000

\* C12: with a valid seed file load_dataset returns the file's content and
\* build_dataset is not called; with no seed file it returns build_dataset();
\* with a seed file that does not parse it raises the decoder's error and
\* build_dataset is not called.
C12_LoadDataset ==
    fn = "load_dataset" =>
        /\ \A value \in SeedValues :
              seed = File(Dumps(value)) =>
                  raised = "none" /\ ret = value /\ calls = <<"load_dataset">>
        /\ seed = File(TwiceText) =>
              /\ raised = "none"
              /\ ret = JObj(<<Member("profiles", JArr(<<JNum(1)>>))>>)
              /\ calls = <<"load_dataset">>
        /\ seed = Absent =>
              /\ raised = "none"
              /\ calls = <<"load_dataset", "build_dataset">>
              /\ \E now \in 0..MaxClock : ret = build_dataset(NoArgument, now).val
              /\ ret.activeProfileId = "DX-01"
        /\ (seed.kind = "file" /\ seed.text \in CorruptTexts) =>
              /\ raised = "JSONDecodeError"
              /\ ret = None
              /\ calls = <<"load_dataset">>

\* C12 witness: the seed file holds the first tokens of a dataset, and
\* load_dataset ended with the decoder's error.
C12_Witness ==
    /\ fn = "load_dataset"
    /\ seed.kind = "file"
    /\ Len(seed.text) = MaxPrefix
    /\ seed.text \in CorruptTexts
    /\ raised = "JSONDecodeError"

\* the three cases of C12 all occur: content returned, dataset built
C12_WitnessValid ==
    /\ fn = "load_dataset"
    /\ seed = File(Dumps(DatasetValue("DX-01", <<build_profiles[3], build_profiles[1]>>)))
    /\ raised = "none"
    /\ Len(ret.members) = 3

Stages ==
    {"analyze_parameter_integrity", "generate_unit_geometry",
     "run_structural_verification", "compute_error_correction",
     "build_data_association", "build_dataset"}

Deviations(iterations) == [i \in 1..Len(iterations) |-> iterations[i].deviationMm]

\* C14: in compute_error_correction the reduction factor is positive in each
\* of the 5 iterations and 0.24 in the fifth, so for a drift that is not
\* negative no deviationMm is negative and deviationMm never increases from
\* one iteration to the next, over all 5 iterations.
C14_FactorPositive ==
    Returned("compute_error_correction") =>
        /\ Len(ret.iterations) = 5
        /\ \A idx \in 0..4 : ReductionFactor(idx) > 0
        /\ ReductionFactor(4) = 240000
        /\ Drift(profile, record) >= 0 =>
              /\ \A i \in 1..5 :
                    ret.iterations[i].deviationMm
                        = Round(Mul(Drift(profile, record), ReductionFactor(i - 1)), 3)
              /\ \A i \in 1..5 : ret.iterations[i].deviationMm >= 0
              /\ NonIncreasingTo(Deviations(ret.iterations), 5)

\* C14 witness: DX-03 with its own geometry has drift 1.152, and the fifth
\* deviationMm, 0.276, is positive and below the fourth.
C14_Witness ==
    /\ Returned("compute_error_correction")
    /\ profile = build_profiles[3]
    /\ record = generate_unit_geometry(profile).val
    /\ Drift(profile, record) = 1152000
    /\ ret.iterations[5].deviationMm = 276000
    /\ ret.iterations[4].deviationMm > ret.iterations[5].deviationMm

\* C15: whenever analyze_parameter_integrity returns a result,
\* missingParameters is empty and completenessScore is 100; with a ruled
\* field holding None the call raises TypeError and returns nothing.
C15_NeverReportedIncomplete ==
    fn = "analyze_parameter_integrity" =>
        /\ raised = "none" =>
              /\ ret.missingParameters = <<>>
              /\ ret.completenessScore = 100 * One
              /\ profile.unset \cap RuledFields = {}
        /\ profile.unset \cap RuledFields # {} =>
              raised = "TypeError" /\ ret = None

\* C15 witness: DX-02 with module_depth holding None was passed, and the call
\* ended with TypeError.
C15_Witness ==
    /\ fn = "analyze_parameter_integrity"
    /\ profile.id = "DX-02"
    /\ profile.unset = {"module_depth"}
    /\ raised = "TypeError"
    /\ ret = None

\* C16: the session history never holds more than 12 entries, and each call
\* of update_history that returns puts the new entry at index 0 and, after
\* it, the previous entries in their order, without those beyond the 11th;
\* init_session_state leaves a history that is there as it is.
C16_HistoryNewestFirst ==
    /\ [](Len(session.history) <= 12)
    /\ [][(fn' = "update_history" /\ raised' = "none") =>
             /\ Len(session'.history) = Min(12, Len(session.history) + 1)
             /\ session'.history[1] =
                    [timestamp |-> record'.stamp, profile |-> profile'.id,
                     stabilityIndex |-> record'.structural.stabilityIndex,
                     assemblySuitability |-> record'.corrections.assemblySuitability,
                     remark |-> record'.remark]
             /\ \A i \in 2..Len(session'.history) :
                    session'.history[i] = session.history[i - 1]]_vars
    /\ [][(fn' = "init_session_state" /\ "history" \in session.keys) =>
             session'.history = session.history]_vars

\* C16 witness: update_history returned with 12 entries in the history, the
\* newest for DX-02 and the two after it for DX-01 and DX-02.
C16_Witness ==
    /\ fn = "update_history"
    /\ raised = "none"
    /\ profile.id = "DX-02"
    /\ Len(session.history) = 12
    /\ session.history[1].profile = "DX-02"
    /\ session.history[2].profile = "DX-01"
    /\ session.history[3].profile = "DX-02"
    /\ session.history[12].profile = "DX-01"
    /\ session.history[1].timestamp = 1
    /\ session.history[2].timestamp = 0

\* function f is among the functions the run went through
Reached(f, fns) == \E i \in 1..Len(fns) : fns[i] = f

\* C17 as claimed: in every run of main() the pipeline is recomputed and a
\* history entry is added exactly when the form was submitted or no
\* latest_result exists yet, and every other run leaves latest_result and the
\* history as they were; so the first run of a session records an entry, and
\* the history is not empty when render_history is reached.
C17_AsClaimed ==
    [][fn' = "main" =>
          LET due == record'.submitted \/ "latest_result" \notin session.keys
          IN  /\ due <=> Reached("update_history", calls')
              /\ due =>
                    /\ "latest_result" \in session'.keys
                    /\ Len(session'.history) = Len(session.history) + 1
                    /\ \A i \in 1..Len(session.history) :
                          session'.history[i + 1] = session.history[i]
              /\ ~due =>
                    /\ session'.latest_result = session.latest_result
                    /\ session'.history = session.history
              /\ session = EmptySession => Len(session'.history) = 1
              /\ Reached("render_history", calls') => Len(session'.history) > 0]_vars

=============================================================================
